---- MODULE Spec2Model ----
(***************************************************************************)
(* Model of dynarmic's decoder_detail.h: the bitstring compiler that turns *)
(* an instruction pattern into a (mask, expect) pair (GetMaskAndExpect),   *)
(* per-argument (mask, shift) tables (GetArgInfo<N>), and a proxy callable *)
(* that extracts the arguments of an instruction word (VisitorCaller::Make *)
(* assembled by GetMatcher).                                               *)
(*                                                                         *)
(* One behaviour is one expansion of DYNARMIC_DECODER_GET_MATCHER on one   *)
(* bitstring for a handler with N parameters, followed by one call of the  *)
(* resulting proxy on an instruction word.  GetArgInfo is modelled one     *)
(* loop iteration per step; the other functions are one step each.         *)
(***************************************************************************)
EXTENDS Integers, Sequences, FiniteSets

VARIABLES bitstring, N, ignore_asserts, pc, me_done, mask, expect,
          i, ch, arg_index, masks, shifts, accessed,
          matcher, instruction, handler_calls

vars == <<bitstring, N, ignore_asserts, pc, me_done, mask, expect,
          i, ch, arg_index, masks, shifts, accessed,
          matcher, instruction, handler_calls>>

(* ---------------------------- bounds ----------------------------------- *)
\* Width of the exhaustively enumerated bitstrings (opcode_bitsize).
W == 3
\* Largest handler arity N that GetArgInfo<N> is instantiated with.
MaxN == 2
\* Bit width of the narrow integer parameter type (a scaled-down u8).
NarrowBits == 2

(* ---------------------------- alphabet --------------------------------- *)
\* The value 0 of `char ch = 0`.
NUL == "NUL"
FieldChars == {"a", "b"}
Alphabet == {"0", "1", "-"} \cup FieldChars
\* The width-8 bitstring "10aabbb-".
ExampleBitstring == <<"1", "0", "a", "a", "b", "b", "b", "-">>
Bitstrings == [1..W -> Alphabet] \cup {ExampleBitstring}
ParamTypes == {"bool", "narrow", "opcode"}

(* ------------------------ opcode_type arithmetic ----------------------- *)
opcode_bitsize == Len(bitstring)

RECURSIVE BitOr(_, _)
\* a | b on unsigned words.
BitOr(a, b) ==
    IF a = 0 THEN b
    ELSE IF b = 0 THEN a
    ELSE (IF a % 2 = 1 \/ b % 2 = 1 THEN 1 ELSE 0) + 2 * BitOr(a \div 2, b \div 2)

RECURSIVE BitAnd(_, _)
\* a & b on unsigned words.
BitAnd(a, b) ==
    IF a = 0 \/ b = 0 THEN 0
    ELSE (IF a % 2 = 1 /\ b % 2 = 1 THEN 1 ELSE 0) + 2 * BitAnd(a \div 2, b \div 2)

\* static_cast<opcode_type>(1) << k in a word of w bits.
OneShl(k, w) == (2 ^ k) % (2 ^ w)

\* a >> k on unsigned words.
Shr(a, k) == a \div (2 ^ k)

\* const size_t bit_position = opcode_bitsize - i - 1;  (i counted from 0)
BitPosition(w, idx) == w - idx - 1

(* -------------------------- GetMaskAndExpect --------------------------- *)
\* Variant: case '1' forgets `mask |= one << bit_position`.
MaskAndExpectStep_NoMaskOnOne(me, c, bit_position, w) ==
    CASE c = "0" -> [mask   |-> BitOr(me.mask, OneShl(bit_position, w)),
                     expect |-> me.expect]
      [] c = "1" -> [mask   |-> me.mask,
                     expect |-> BitOr(me.expect, OneShl(bit_position, w))]
      [] OTHER   -> me

\* Variant: '-' falls into case '0'.
MaskAndExpectStep_DashAsZero(me, c, bit_position, w) ==
    CASE c = "0" \/ c = "-" -> [mask   |-> BitOr(me.mask, OneShl(bit_position, w)),
                                expect |-> me.expect]
      [] c = "1" -> [mask   |-> BitOr(me.mask, OneShl(bit_position, w)),
                     expect |-> BitOr(me.expect, OneShl(bit_position, w))]
      [] OTHER   -> me

\* Variant: the default case sets the mask bit of a field character.
MaskAndExpectStep_FieldInMask(me, c, bit_position, w) ==
    CASE c = "0" -> [mask   |-> BitOr(me.mask, OneShl(bit_position, w)),
                     expect |-> me.expect]
      [] c = "1" -> [mask   |-> BitOr(me.mask, OneShl(bit_position, w)),
                     expect |-> BitOr(me.expect, OneShl(bit_position, w))]
      [] c = "-" -> me
      [] OTHER   -> [mask   |-> BitOr(me.mask, OneShl(bit_position, w)),
                     expect |-> me.expect]

\* One iteration of the switch: me is the pair so far, c the character.
MaskAndExpectStep(me, c, bit_position, w) ==
    CASE c = "0" -> [mask   |-> BitOr(me.mask, OneShl(bit_position, w)),
                     expect |-> me.expect]
      [] c = "1" -> [mask   |-> BitOr(me.mask, OneShl(bit_position, w)),
                     expect |-> BitOr(me.expect, OneShl(bit_position, w))]
      [] OTHER   -> me

RECURSIVE MaskAndExpectLoop(_, _, _)
\* The for loop from index idx (0-based) to the end of the bitstring.
MaskAndExpectLoop(bs, idx, me) ==
    IF idx >= Len(bs) THEN me
    ELSE MaskAndExpectLoop(bs, idx + 1,
            MaskAndExpectStep(me, bs[idx + 1], BitPosition(Len(bs), idx), Len(bs)))

GetMaskAndExpectOf(bs) == MaskAndExpectLoop(bs, 0, [mask |-> 0, expect |-> 0])

(* ------------------------------ GetArgInfo ----------------------------- *)
IsFixedChar(c) == c = "0" \/ c = "1" \/ c = "-"

\* Variant: closing a field clears the cursor but forgets arg_index++.
CloseField_KeepIndex(cur, idx) ==
    IF cur # NUL THEN [ch |-> NUL, arg_index |-> idx]
    ELSE [ch |-> cur, arg_index |-> idx]

\* Variant: closing a field advances the index but forgets ch = 0.
CloseField_KeepCursor(cur, idx) ==
    IF cur # NUL THEN [ch |-> cur, arg_index |-> idx + 1]
    ELSE [ch |-> cur, arg_index |-> idx]

\* Lines 81-84: cursor and index after a '0', '1' or '-'.
CloseField(cur, idx) ==
    IF cur # NUL THEN [ch |-> NUL, arg_index |-> idx + 1]
    ELSE [ch |-> cur, arg_index |-> idx]

\* Variant: a change of field character forgets arg_index++.
OpenField_NoAdvanceOnChange(cur, idx, c) ==
    IF cur = NUL THEN [ch |-> c, arg_index |-> idx]
    ELSE IF cur # c THEN [ch |-> c, arg_index |-> idx]
    ELSE [ch |-> cur, arg_index |-> idx]

\* Lines 86-91: cursor and index after a field character c.
OpenField(cur, idx, c) ==
    IF cur = NUL THEN [ch |-> c, arg_index |-> idx]
    ELSE IF cur # c THEN [ch |-> c, arg_index |-> idx + 1]
    ELSE [ch |-> cur, arg_index |-> idx]

\* Variant: the bounds check is off by one (arg_index > N).
FieldInRange_OffByOne(idx, n) == ~(idx > n)

\* Line 96: the bounds check that guards the table writes.
FieldInRange(idx, n) == ~(idx >= n)

\* Variant: the check accepts any table.
AllMasksNonZero_Always(ms) == \A k \in DOMAIN ms : ms[k] >= 0

\* Line 109: std::all_of(masks, m != 0).
AllMasksNonZero(ms) == \A k \in DOMAIN ms : ms[k] # 0

(* ------------------------ VisitorCaller / proxy ------------------------ *)
\* Variant: no conversion at all (the raw word is passed on).
Cast_Raw(T, v) == v

\* static_cast<Args>(v) for the modelled parameter types.
Cast(T, v) ==
    CASE T = "bool"   -> IF v # 0 THEN 1 ELSE 0
      [] T = "narrow" -> v % (2 ^ NarrowBits)
      [] OTHER        -> v

\* Variant: the masked word is not shifted down.
ExtractArg_NoShift(x, m, s) == BitAnd(x, m)

\* (instruction & arg_masks[iota]) >> arg_shifts[iota]
ExtractArg(x, m, s) == Shr(BitAnd(x, m), s)

\* The argument pack handed to (v.*fn)(...), parameter k from table entry k.
ProxyArgs(x, types, arg_masks, arg_shifts) ==
    [k \in DOMAIN types |-> Cast(types[k], ExtractArg(x, arg_masks[k], arg_shifts[k]))]

NoMatcher == [built |-> FALSE]

(* -------------------------------- Init --------------------------------- *)
Init ==
    /\ bitstring \in Bitstrings
    /\ N \in 0..MaxN
    /\ ignore_asserts \in BOOLEAN
    /\ pc = "GetArgInfo"
    /\ me_done = FALSE
    /\ mask = 0
    /\ expect = 0
    /\ i = 0
    /\ ch = NUL
    /\ arg_index = 0
    /\ masks = [k \in 0..(N - 1) |-> 0]
    /\ shifts = [k \in 0..(N - 1) |-> 0]
    /\ accessed = {}
    /\ matcher = NoMatcher
    /\ instruction = 0
    /\ handler_calls = <<>>

(* ------------------------------- actions ------------------------------- *)
\* GetMaskAndExpect(bitstring).  The macro passes it and GetArgInfo as two
\* arguments of one call, so it runs either before the scan starts or after
\* the scan has returned.
GetMaskAndExpect ==
    /\ ~me_done
    /\ \/ pc = "GetArgInfo" /\ i = 0
       \/ pc = "returned"
    /\ mask' = GetMaskAndExpectOf(bitstring).mask
    /\ expect' = GetMaskAndExpectOf(bitstring).expect
    /\ me_done' = TRUE
    /\ UNCHANGED <<bitstring, N, ignore_asserts, pc, i, ch, arg_index, masks,
                   shifts, accessed, matcher, instruction, handler_calls>>

\* Loop condition of line 79 while GetArgInfo is running.
Scanning == pc = "GetArgInfo" /\ i < opcode_bitsize

\* Loop iteration on '0', '1' or '-'.
ScanFixed ==
    /\ Scanning
    /\ IsFixedChar(bitstring[i + 1])
    /\ ch' = CloseField(ch, arg_index).ch
    /\ arg_index' = CloseField(ch, arg_index).arg_index
    /\ i' = i + 1
    /\ UNCHANGED <<bitstring, N, ignore_asserts, pc, me_done, mask, expect,
                   masks, shifts, accessed, matcher, instruction, handler_calls>>

\* Loop iteration on a field character, N > 0, index in range.
ScanField ==
    /\ Scanning
    /\ ~IsFixedChar(bitstring[i + 1])
    /\ N > 0
    /\ LET o == OpenField(ch, arg_index, bitstring[i + 1])
           bit_position == BitPosition(opcode_bitsize, i)
       IN /\ FieldInRange(o.arg_index, N)
          /\ ch' = o.ch
          /\ arg_index' = o.arg_index
          /\ masks' = [masks EXCEPT ![o.arg_index] =
                          BitOr(@, OneShl(bit_position, opcode_bitsize))]
          /\ shifts' = [shifts EXCEPT ![o.arg_index] = bit_position]
          /\ accessed' = accessed \cup {o.arg_index}
    /\ i' = i + 1
    /\ UNCHANGED <<bitstring, N, ignore_asserts, pc, me_done, mask, expect,
                   matcher, instruction, handler_calls>>

\* Loop iteration on a field character, N > 0, index out of range:
\* throw std::out_of_range("Unexpected field").  i stays at the character.
ScanThrowOutOfRange ==
    /\ Scanning
    /\ ~IsFixedChar(bitstring[i + 1])
    /\ N > 0
    /\ LET o == OpenField(ch, arg_index, bitstring[i + 1])
       IN /\ ~FieldInRange(o.arg_index, N)
          /\ ch' = o.ch
          /\ arg_index' = o.arg_index
    /\ pc' = "out_of_range"
    /\ UNCHANGED <<bitstring, N, ignore_asserts, me_done, mask, expect, i,
                   masks, shifts, accessed, matcher, instruction, handler_calls>>

\* Loop iteration on a field character with N = 0: the else branch of
\* `if constexpr (N > 0)` throws unconditionally.
ScanThrowNoArgs ==
    /\ Scanning
    /\ ~IsFixedChar(bitstring[i + 1])
    /\ N = 0
    /\ LET o == OpenField(ch, arg_index, bitstring[i + 1])
       IN /\ ch' = o.ch
          /\ arg_index' = o.arg_index
    /\ pc' = "out_of_range"
    /\ UNCHANGED <<bitstring, N, ignore_asserts, me_done, mask, expect, i,
                   masks, shifts, accessed, matcher, instruction, handler_calls>>

\* End of the loop: the ASSERT passes or is compiled out; return the tables.
ScanReturn ==
    /\ pc = "GetArgInfo"
    /\ i = opcode_bitsize
    /\ ignore_asserts \/ AllMasksNonZero(masks)
    /\ pc' = "returned"
    /\ UNCHANGED <<bitstring, N, ignore_asserts, me_done, mask, expect, i, ch,
                   arg_index, masks, shifts, accessed, matcher, instruction,
                   handler_calls>>

\* End of the loop: the ASSERT is compiled in and fails.
ScanMasksCheckFail ==
    /\ pc = "GetArgInfo"
    /\ i = opcode_bitsize
    /\ ~ignore_asserts
    /\ ~AllMasksNonZero(masks)
    /\ pc' = "assert_failed"
    /\ UNCHANGED <<bitstring, N, ignore_asserts, me_done, mask, expect, i, ch,
                   arg_index, masks, shifts, accessed, matcher, instruction,
                   handler_calls>>

\* GetMatcher(fn, name, mask_and_expect, masks_and_shifts) for a handler fn
\* whose N parameters have the types `types`.
GetMatcher ==
    /\ pc = "returned"
    /\ me_done
    /\ \E types \in [0..(N - 1) -> ParamTypes] :
          matcher' = [built |-> TRUE, mask |-> mask, expect |-> expect,
                      arg_masks |-> masks, arg_shifts |-> shifts, Args |-> types]
    /\ pc' = "built"
    /\ UNCHANGED <<bitstring, N, ignore_asserts, me_done, mask, expect, i, ch,
                   arg_index, masks, shifts, accessed, instruction, handler_calls>>

\* proxy_fn(v, instruction): one call of the handler with the extracted pack.
Dispatch ==
    /\ pc = "built"
    /\ \E x \in 0..(2 ^ opcode_bitsize - 1) :
          /\ instruction' = x
          /\ handler_calls' = Append(handler_calls,
                 ProxyArgs(x, matcher.Args, matcher.arg_masks, matcher.arg_shifts))
    /\ pc' = "called"
    /\ UNCHANGED <<bitstring, N, ignore_asserts, me_done, mask, expect, i, ch,
                   arg_index, masks, shifts, accessed, matcher>>

Next ==
    \/ GetMaskAndExpect
    \/ ScanFixed
    \/ ScanField
    \/ ScanThrowOutOfRange
    \/ ScanThrowNoArgs
    \/ ScanReturn
    \/ ScanMasksCheckFail
    \/ GetMatcher
    \/ Dispatch

Spec == Init /\ [][Next]_vars

(* ------------------- vocabulary of the properties ---------------------- *)
\* Bit k of the word x.
Bit(x, k) == (x \div (2 ^ k)) % 2
\* Character positions, counted from 0 at the left as in the source.
Positions == 0..(opcode_bitsize - 1)
CharAt(p) == bitstring[p + 1]
\* The bit of the word that position p describes.
BitOf(p) == opcode_bitsize - 1 - p
Words == 0..(2 ^ opcode_bitsize - 1)
IsFixedPos(p) == CharAt(p) \in {"0", "1"}
IsFieldPos(p) == CharAt(p) \notin {"0", "1", "-"}
\* A maximal run of one repeated field character starts at p.
RunStart(p) == IsFieldPos(p) /\ (p = 0 \/ CharAt(p - 1) # CharAt(p))
RunStarts == {p \in Positions : RunStart(p)}
RunCount == Cardinality(RunStarts)
\* Number (from 0, left to right) of the run that field position p lies in.
RunOf(p) == Cardinality({s \in RunStarts : s <= p}) - 1
RunPositions(j) == {p \in Positions : IsFieldPos(p) /\ RunOf(p) = j}
\* Lowest bit position of run j (the bit of its rightmost character).
RunLowBit(j) == BitOf(CHOOSE p \in RunPositions(j) : \A q \in RunPositions(j) : q <= p)
\* The word m has exactly the bits of the character positions in S set.
HasExactlyBits(m, S) ==
    /\ m \in Words
    /\ \A p \in Positions : (Bit(m, BitOf(p)) = 1) <=> (p \in S)
\* GetArgInfo has just returned its tables (they never change afterwards).
Returned == pc = "returned"
\* GetMaskAndExpect has just returned its pair (it never changes afterwards).
JustComputed == me_done /\ (pc = "returned" \/ (pc = "GetArgInfo" /\ i = 0))

RECURSIVE BinaryValue(_, _)
\* The first n characters of a '0'/'1' string read as a binary integer.
BinaryValue(bs, n) ==
    IF n = 0 THEN 0
    ELSE 2 * BinaryValue(bs, n - 1) + (IF bs[n] = "1" THEN 1 ELSE 0)

RECURSIVE MaskedValue(_, _, _, _)
\* Sum of 2^(b-s) over the bits b in s..top that are set in both x and m.
MaskedValue(x, m, s, top) ==
    IF top < s THEN 0
    ELSE Bit(x, top) * Bit(m, top) * (2 ^ (top - s)) + MaskedValue(x, m, s, top - 1)

TypeOK ==
    /\ pc \in {"GetArgInfo", "returned", "out_of_range", "assert_failed", "built", "called"}
    /\ i \in 0..opcode_bitsize
    /\ mask \in Words
    /\ expect \in Words
    /\ DOMAIN masks = 0..(N - 1)
    /\ DOMAIN shifts = 0..(N - 1)

(* ------------------------------- C1 ------------------------------------ *)
\* C1: GetMaskAndExpect returns (mask, expect) where bit W-1-i of mask is 1
\* exactly when character i is '0' or '1' and bit W-1-i of expect is 1
\* exactly when character i is '1'; so expect has no bit outside mask, '-'
\* and field positions are 0 in both, and an all-'0'/'1' bitstring gives
\* mask = 2^W - 1 and expect = the bitstring read as a binary integer.
C1_MaskAndExpectBits ==
    JustComputed =>
      /\ HasExactlyBits(mask, {p \in Positions : IsFixedPos(p)})
      /\ HasExactlyBits(expect, {p \in Positions : CharAt(p) = "1"})
      /\ \A k \in 0..(opcode_bitsize - 1) : Bit(expect, k) = 1 => Bit(mask, k) = 1
      /\ \A p \in Positions :
            ~IsFixedPos(p) => Bit(mask, BitOf(p)) = 0 /\ Bit(expect, BitOf(p)) = 0
      /\ (\A p \in Positions : IsFixedPos(p)) =>
            /\ mask = 2 ^ opcode_bitsize - 1
            /\ expect = BinaryValue(bitstring, opcode_bitsize)

C1_Witness ==
    /\ JustComputed
    /\ bitstring = ExampleBitstring
    /\ mask = 192
    /\ expect = 128

(* ------------------------------- C2 ------------------------------------ *)
\* The decode table's test of a word against the computed pair.
Matches(x) == BitAnd(x, mask) = expect
FixedBitsAgree(x) ==
    \A p \in Positions : IsFixedPos(p) =>
        Bit(x, BitOf(p)) = (IF CharAt(p) = "1" THEN 1 ELSE 0)

\* C2: with (mask, expect) = GetMaskAndExpect(bitstring), (x & mask) = expect
\* holds iff x has bit 0 at every '0' position and bit 1 at every '1'
\* position; two words that differ only at '-' or field positions get the
\* same outcome.
C2_MatchIffFixedBits ==
    JustComputed =>
      /\ \A x \in Words : Matches(x) <=> FixedBitsAgree(x)
      /\ \A x, y \in Words :
            (\A p \in Positions : IsFixedPos(p) => Bit(x, BitOf(p)) = Bit(y, BitOf(p)))
               => (Matches(x) <=> Matches(y))

C2_Witness ==
    /\ JustComputed
    /\ bitstring = ExampleBitstring
    /\ Matches(172)
    /\ Matches(191)
    /\ ~Matches(236)

(* ------------------------------- C3 ------------------------------------ *)
\* C3: when the bitstring has exactly N maximal runs of a repeated field
\* character, GetArgInfo<N> returns, and in its tables run j (from the left,
\* from 0) has index j: masks[j] has exactly the bits of that run set and
\* shifts[j] is the bit position of the run's rightmost character; "10aabbb-"
\* yields masks (48, 14) and shifts (4, 1).
C3_RunTables ==
    /\ pc \in {"out_of_range", "assert_failed"} => RunCount # N
    /\ (Returned /\ RunCount = N) =>
          /\ \A j \in 0..(N - 1) :
                /\ HasExactlyBits(masks[j], RunPositions(j))
                /\ shifts[j] = RunLowBit(j)
          /\ \A j, k \in 0..(N - 1) : j < k => shifts[j] > shifts[k]
          /\ bitstring = ExampleBitstring =>
                /\ masks = [k \in 0..1 |-> IF k = 0 THEN 48 ELSE 14]
                /\ shifts = [k \in 0..1 |-> IF k = 0 THEN 4 ELSE 1]

C3_Witness ==
    /\ pc = "returned"
    /\ bitstring = ExampleBitstring
    /\ N = 2
    /\ masks[0] = 48 /\ masks[1] = 14
    /\ shifts[0] = 4 /\ shifts[1] = 1

(* ------------------------------- C4 ------------------------------------ *)
\* The word x carries the n-bit value v in the n bits from bit low upwards.
Encodes(x, low, n, v) == \A k \in 0..(n - 1) : Bit(x, low + k) = Bit(v, k)

\* C4: for a field of width n with table entry (mask, shift), every word x
\* whose bits at the field's positions encode the n-bit value v gives
\* (x & mask) >> shift = v whatever its other bits are, and
\* mask >> shift = 2^n - 1.
C4_ExtractRoundTrip ==
    pc = "called" =>
      \A j \in 0..(N - 1) : j < RunCount =>
        LET n == Cardinality(RunPositions(j))
            low == RunLowBit(j)
            m == matcher.arg_masks[j]
            s == matcher.arg_shifts[j]
        IN /\ Shr(m, s) = 2 ^ n - 1
           /\ \A v \in 0..(2 ^ n - 1) :
                 Encodes(instruction, low, n, v) => ExtractArg(instruction, m, s) = v

C4_Witness ==
    /\ pc = "called"
    /\ bitstring = ExampleBitstring
    /\ instruction = 172
    /\ Encodes(instruction, 4, 2, 2)
    /\ Encodes(instruction, 1, 3, 6)
    /\ ExtractArg(instruction, matcher.arg_masks[0], matcher.arg_shifts[0]) = 2
    /\ ExtractArg(instruction, matcher.arg_masks[1], matcher.arg_shifts[1]) = 6

(* ------------------------------- C5 ------------------------------------ *)
\* Start position of run number j (from 0).
RunStartOf(j) == CHOOSE p \in RunStarts : RunOf(p) = j

\* C5: when the bitstring has more than N runs, GetArgInfo<N> never returns
\* a table and never scans past the first character of run number N+1; it
\* throws out_of_range exactly there, and no mask or shift at an index >= N
\* has been touched; for N = 0 the first field character throws.
C5_TooManyFields ==
    /\ accessed \subseteq 0..(N - 1)
    /\ pc \in {"returned", "assert_failed"} => RunCount <= N
    /\ (pc = "GetArgInfo" /\ RunCount > N) => i <= RunStartOf(N)
    /\ pc = "out_of_range" =>
          /\ RunCount > N
          /\ i = RunStartOf(N)
          /\ arg_index = N
          /\ N = 0 => \A p \in 0..(i - 1) : ~IsFieldPos(p)

C5_Witness ==
    /\ pc = "out_of_range"
    /\ N = 1
    /\ RunCount = 2
    /\ accessed = {0}

(* ------------------------------- C6 ------------------------------------ *)
\* C6 as stated: GetArgInfo<N> returns a table only when the bitstring has
\* exactly N fields; every other field count, smaller as well as larger,
\* ends in the out-of-range defect, and every returned mask is non-zero.
C6_Original ==
    /\ pc \in {"returned", "assert_failed"} => RunCount = N
    /\ Returned => \A j \in 0..(N - 1) : masks[j] # 0

\* C6 amended: more than N fields end in the out-of-range defect.  Fewer
\* than N fields end in the failed ASSERT of line 109 when asserts are
\* compiled in, and with DYNARMIC_IGNORE_ASSERTS the table is returned with
\* masks[j] = 0 for every j from the field count on.  A build with asserts
\* returns only for exactly N fields, all masks non-zero.
C6_ArityOutcome ==
    /\ pc = "out_of_range" => RunCount > N
    /\ pc = "assert_failed" => RunCount < N /\ ~ignore_asserts
    /\ (Returned /\ ~ignore_asserts) =>
          RunCount = N /\ \A j \in 0..(N - 1) : masks[j] # 0
    /\ (Returned /\ ignore_asserts) =>
          RunCount <= N /\ \A j \in 0..(N - 1) : (masks[j] # 0) <=> (j < RunCount)

C6_Witness ==
    /\ pc = "assert_failed"
    /\ RunCount = 1
    /\ N = 2
    /\ masks[0] # 0
    /\ masks[1] = 0

(* ------------------------------- C7 ------------------------------------ *)
\* The value a parameter of type T receives from the zero-extended field v.
Converted(T, v, r) ==
    CASE T = "bool"   -> r \in {0, 1} /\ (r = 1 <=> v # 0)
      [] T = "narrow" -> /\ r \in 0..(2 ^ NarrowBits - 1)
                         /\ \A b \in 0..(NarrowBits - 1) : Bit(r, b) = Bit(v, b)
      [] OTHER        -> r = v

\* C7: the proxy built by GetMatcher from k (mask, shift) pairs calls the
\* handler exactly once per word, parameter number k receiving the bits of
\* the word selected by mask k, moved down by shift k, zero-extended and then
\* converted to the parameter's type (narrow integer: modulo 2^width, bool:
\* non-zero); it is defined for every word, and the matcher stores the mask
\* and expect it was given.
C7_DispatchArgs ==
    /\ pc \in {"built", "called"} =>
          /\ matcher.mask = mask /\ matcher.expect = expect
          /\ matcher.arg_masks = masks /\ matcher.arg_shifts = shifts
          /\ DOMAIN matcher.Args = 0..(N - 1)
          /\ \A k \in 0..(N - 1) : matcher.arg_shifts[k] \in 0..(opcode_bitsize - 1)
    /\ pc = "built" => handler_calls = <<>>
    /\ pc = "called" =>
          /\ Len(handler_calls) = 1
          /\ DOMAIN handler_calls[1] = 0..(N - 1)
          /\ \A k \in 0..(N - 1) :
                Converted(matcher.Args[k],
                          MaskedValue(instruction, masks[k], shifts[k], opcode_bitsize - 1),
                          handler_calls[1][k])

C7_Witness ==
    /\ pc = "called"
    /\ N >= 2
    /\ \E k \in 0..(N - 1) :
          /\ matcher.Args[k] = "narrow"
          /\ ExtractArg(instruction, masks[k], shifts[k]) >= 2 ^ NarrowBits
          /\ handler_calls[1][k] < 2 ^ NarrowBits
    /\ \E k \in 0..(N - 1) :
          /\ matcher.Args[k] = "bool"
          /\ handler_calls[1][k] = 1

(* ------------------------------- C8 ------------------------------------ *)
\* A step of the scan loop of GetArgInfo (one character consumed or thrown on).
ScanStep == pc = "GetArgInfo" /\ i < opcode_bitsize /\ (i' = i + 1 \/ pc' = "out_of_range")
ScannedChar == bitstring[i + 1]

\* C8 as stated: a '0', '1' or '-' scanned while a field is open clears the
\* cursor and leaves the field index unchanged; the index advances only on a
\* field character scanned with the cursor empty or holding another character.
C8_Original ==
    [][ScanStep =>
          /\ (IsFixedChar(ScannedChar) /\ ch # NUL) => (ch' = NUL /\ arg_index' = arg_index)
          /\ arg_index' # arg_index => (~IsFixedChar(ScannedChar) /\ ch # ScannedChar)
      ]_vars

\* C8 amended: a '0', '1' or '-' scanned while a field is open clears the
\* cursor and advances the field index by one (with no field open it changes
\* neither); a field character advances the index only when the cursor holds
\* a different field character, never when the cursor is empty, and becomes
\* the cursor.
C8_ScanStepEffect ==
    [][ScanStep =>
          /\ (IsFixedChar(ScannedChar) /\ ch # NUL) =>
                (ch' = NUL /\ arg_index' = arg_index + 1)
          /\ (IsFixedChar(ScannedChar) /\ ch = NUL) =>
                (ch' = NUL /\ arg_index' = arg_index)
          /\ ~IsFixedChar(ScannedChar) =>
                /\ ch' = ScannedChar
                /\ arg_index' = (IF ch # NUL /\ ch # ScannedChar
                                 THEN arg_index + 1 ELSE arg_index)
      ]_vars

\* A '0', '1' or '-' has just been scanned behind an open field.
C8_Witness ==
    /\ pc = "GetArgInfo"
    /\ i >= 2
    /\ IsFieldPos(i - 2)
    /\ ~IsFieldPos(i - 1)
    /\ ch = NUL
    /\ arg_index = 1
    /\ accessed = {0}

(* ------------------------------- C9 ------------------------------------ *)
\* p < q start two runs of the same field character with only '0', '1', '-'
\* between the two runs.
SplitRuns(p, q) ==
    /\ p \in RunStarts /\ q \in RunStarts /\ p < q
    /\ CharAt(p) = CharAt(q)
    /\ \E e \in p..(q - 2) :
          /\ \A r \in p..e : CharAt(r) = CharAt(p)
          /\ \A r \in (e + 1)..(q - 1) : ~IsFieldPos(r)

\* C9 as stated: two runs of the same field character separated only by
\* '0', '1' or '-' are folded into one field index whose mask has the bits
\* of both runs and whose shift is the lowest bit of the later run.
C9_Original ==
    Returned =>
      \A p, q \in Positions : SplitRuns(p, q) =>
        \E j \in 0..(N - 1) :
            /\ Bit(masks[j], BitOf(p)) = 1
            /\ Bit(masks[j], BitOf(q)) = 1
            /\ shifts[j] = RunLowBit(RunOf(q))

\* C9 amended: a field never consists of several runs.  Two runs of the same
\* field character always receive different field indices, the later run the
\* larger one, also when only '0', '1' or '-' lie between them; no mask has
\* bits of two runs.
C9_RunsNeverFolded ==
    Returned =>
      /\ \A p, q \in Positions :
            (IsFieldPos(p) /\ IsFieldPos(q) /\ RunOf(p) < RunOf(q)) =>
               /\ Bit(masks[RunOf(p)], BitOf(q)) = 0
               /\ Bit(masks[RunOf(q)], BitOf(p)) = 0
               /\ Bit(masks[RunOf(p)], BitOf(p)) = 1
               /\ Bit(masks[RunOf(q)], BitOf(q)) = 1
      /\ \A p, q \in Positions : SplitRuns(p, q) =>
            ~ \E j \in 0..(N - 1) :
                 Bit(masks[j], BitOf(p)) = 1 /\ Bit(masks[j], BitOf(q)) = 1

C9_Witness ==
    /\ pc = "returned"
    /\ N = 2
    /\ \E p, q \in Positions : SplitRuns(p, q)
    /\ masks[0] # 0
    /\ masks[1] # 0

(* ------------------------------- C10 ----------------------------------- *)
\* C10: when both GetMaskAndExpect and GetArgInfo<N> have returned, no bit is
\* set in two field masks, no bit is set in a field mask and in the match
\* mask, no '-' position is set anywhere, and the match mask and the field
\* masks together cover exactly the positions that are not '-'.
C10_BitPartition ==
    (Returned /\ me_done) =>
      /\ \A j, k \in 0..(N - 1) : j # k =>
            \A b \in 0..(opcode_bitsize - 1) : ~(Bit(masks[j], b) = 1 /\ Bit(masks[k], b) = 1)
      /\ \A j \in 0..(N - 1) :
            \A b \in 0..(opcode_bitsize - 1) : ~(Bit(masks[j], b) = 1 /\ Bit(mask, b) = 1)
      /\ \A p \in Positions :
            (CharAt(p) # "-") <=>
               (Bit(mask, BitOf(p)) = 1 \/ \E j \in 0..(N - 1) : Bit(masks[j], BitOf(p)) = 1)

C10_Witness ==
    /\ pc = "returned"
    /\ me_done
    /\ bitstring = ExampleBitstring
    /\ N = 2
    /\ mask = 192
    /\ masks[0] = 48
    /\ masks[1] = 14
====
